---------------------------- MODULE Spec2Model ----------------------------
(***************************************************************************)
(* The asynchronous task tracker of the effect routes (src/src/routes and  *)
(* the route modules kept in src/unnamed/part_001): one in-memory task     *)
(* store per route module, the start-task handler with the synchronous     *)
(* prefix of its background worker, the worker's awaits, the status        *)
(* handler and the expiry sweep.  Every route module is modelled; a        *)
(* behaviour follows one module (its store is private to it).              *)
(***************************************************************************)
EXTENDS Integers, Sequences, FiniteSets, TLC

VARIABLES
    effect,     \* the route module the behaviour follows
    hasKey,     \* process.env.SEGMIND_API_KEY is set
    tasks,      \* the module's `tasks` object: own properties only
    worker,     \* per task id: where its background worker stands
    writes,     \* per task id: the terminal records its worker has stored
    issued,     \* number of task ids uuidv4() has produced so far
    now,        \* Date.now(), in ms since the Init state, plus 1
    nextSweep,  \* due time of the module's setInterval callback (0: none)
    idles,      \* number of idle periods so far
    res,        \* response of the handler that ran in the last step, until sent
    req         \* body of the start-task request that response answers, where
                \* the behaviour keeps a record of requests (ValidationSpec)

vars == <<effect, hasKey, tasks, worker, writes, issued, now, nextSweep, idles, res, req>>

-----------------------------------------------------------------------------
(* Bounds of the model *)

MaxTasks == 2
MaxIdle == 2

-----------------------------------------------------------------------------
(* The route modules *)

Effects ==
    { "anime-filter", "celebrity-selfie", "jellycat-effect", "faceswap",
      "video-face-swap", "muscle-surge", "music-generator", "ai-kiss",
      "ai-hug", "warmth-of-jesus", "video-face-swap-params" }

TWO_HOURS == 2 * 60 * 60 * 1000
DAY == 24 * 60 * 60 * 1000
HALF_HOUR == 30 * 60 * 1000
HOUR == 60 * 60 * 1000

\* The Task interface of the module declares createdAt.
HasCreatedAt(e) == e \notin {"anime-filter", "celebrity-selfie"}

\* Modules whose setInterval sweep tests `task.createdAt < Date.now() - 2h`.
TwoHourSweepers ==
    {"muscle-surge", "music-generator", "ai-kiss", "ai-hug", "video-face-swap-params"}

\* Modules whose setInterval sweep tests `now - createdAt > 24h`.
DaySweepers == {"video-face-swap", "warmth-of-jesus"}

\* Modules whose status handler first deletes every record older than 24h.
StatusCleaners == {"jellycat-effect", "faceswap"}

\* Period of the module's setInterval callback; 0 when it registers none.
SweepInterval(e) ==
    IF e \in TwoHourSweepers THEN HALF_HOUR
    ELSE IF e \in DaySweepers THEN HOUR
    ELSE 0

\* Retention window of the module; 0 when nothing in it ever deletes a record.
Retention(e) ==
    IF e \in TwoHourSweepers THEN TWO_HOURS
    ELSE IF e \in DaySweepers \cup StatusCleaners THEN DAY
    ELSE 0

\* Number of source images the worker downloads before the vendor request.
SourceFetches(e) ==
    IF e \in {"anime-filter", "celebrity-selfie", "music-generator"} THEN 0
    ELSE IF e \in {"ai-kiss", "ai-hug"} THEN 2
    ELSE 1

ContentTypes == {"video/mp4", "image/jpeg", "application/json", "text/html"}

\* The content types the worker's binary-media branch accepts
\* (contentType.includes(...) tests).
BinaryTypes(e) ==
    IF e = "anime-filter" THEN {}
    ELSE IF e = "celebrity-selfie" THEN {"image/jpeg"}
    ELSE IF e \in {"video-face-swap", "warmth-of-jesus", "music-generator"} THEN {"video/mp4"}
    ELSE {"video/mp4", "image/jpeg"}

\* HTTP status of a status response for a `failed` task.
FailedCode(e) == IF e \in StatusCleaners \cup {"video-face-swap"} THEN 200 ELSE 500

\* HTTP status of an accepted start-task.
AcceptedCode(e) == IF e \in StatusCleaners THEN 202 ELSE 200

\* `success` field of a status response for a `pending` task.
PendingSuccess(e) == e \in {"jellycat-effect", "video-face-swap"}

-----------------------------------------------------------------------------
(* Task ids and the task store *)

\* The i-th id uuidv4() returns.
Uuid(i) == "uuid-" \o ToString(i)

TaskIds == { Uuid(i) : i \in 1..MaxTasks }

\* Property names every object inherits from Object.prototype.
ObjectPrototypeKeys == {"constructor", "toString"}

\* Strings a client can put in /status/:taskId.
StatusKeys == TaskIds \cup ObjectPrototypeKeys

-----------------------------------------------------------------------------
(* JSON values of a request body and the start-task validation *)

JsUndefined == [t |-> "undefined"]
JsNull == [t |-> "null"]
JsString(s) == [t |-> "string", s |-> s]
JsNumber(n) == [t |-> "number", n |-> n]
\* the number n + 1/2
JsFraction(n) == [t |-> "number", n |-> n, frac |-> TRUE]
\* the array ["jackie_chan"] and the object {}
JsArray == [t |-> "array"]
JsObject == [t |-> "object"]

\* Number.isInteger(v)
IsInteger(v) == v.t = "number" /\ "frac" \notin DOMAIN v

\* !v
Falsy(v) ==
    \/ v.t \in {"undefined", "null"}
    \/ v.t = "string" /\ v.s = ""
    \/ IsInteger(v) /\ v.n = 0

\* s.startsWith(prefix)
StartsWith(s, prefix) == Len(s) >= Len(prefix) /\ SubSeq(s, 1, Len(prefix)) = prefix

\* msg.includes(s)
Contains(msg, s) ==
    \E i \in 1..(Len(msg) - Len(s) + 1) : SubSeq(msg, i, i + Len(s) - 1) = s

\* /^https?:\/\//.test(s)
HasHttpScheme(s) == StartsWith(s, "http://") \/ StartsWith(s, "https://")

\* InvalidUrl without the scheme test: any non-empty string passes
InvalidUrlLax(v) == Falsy(v) \/ v.t # "string"

\* !url || typeof url !== 'string' || !/^https?:\/\//.test(url)
InvalidUrl(v) == Falsy(v) \/ v.t # "string" \/ ~HasHttpScheme(v.s)

\* !text || typeof text !== 'string' || text.trim().length === 0
InvalidText(v) == Falsy(v) \/ v.t # "string" \/ v.s \in {" "}

\* `const { p = d } = req.body`: the default applies to undefined only
Default(v, d) == IF v.t = "undefined" THEN d ELSE v

\* Number(v), on the values the model sends ("5" converts, other strings,
\* the array and the object are NaN, modelled as -1, which no allow-list
\* holds; nor does one hold a non-integer, which is -1 here too)
ToNumber(v) ==
    IF IsInteger(v) THEN v.n
    ELSE IF v.t = "string" /\ v.s = "5" THEN 5
    ELSE IF v.t = "string" /\ v.s = "" THEN 0
    ELSE IF v.t = "null" THEN 0
    ELSE -1

\* Array.prototype.includes on an array of strings: strict equality
IncludesString(list, v) == v.t = "string" /\ v.s \in list

SUPPORTED_STYLES == {"ghibli"}
SUPPORTED_CELEBRITIES ==
    { "jackie_chan", "michael_jackson", "leonardo_dicaprio", "will_smith",
      "brad_pitt", "angelina_jolie", "tom_cruise", "scarlett_johansson",
      "robert_downey_jr" }
CELEBRITY_NAMES == SUPPORTED_CELEBRITIES \cup {"taylor_swift"}
SUPPORTED_LANDMARKS ==
    { "oriental_pearl", "eiffel_tower", "colosseum", "statue_of_liberty",
      "big_ben", "sydney_opera_house", "mount_fuji", "taj_mahal",
      "machu_picchu", "great_wall", "golden_gate_bridge", "christ_redeemer" }
JELLYCAT_MODES == {"pro", "normal"}
KLING_MODES == {"std", "pro"}
KLING_DURATIONS == {5, 10}
WARMTH_DURATIONS == {5, 8}
SUPPORTED_QUALITIES == {"360p", "540p", "720p", "1080p"}
SUPPORTED_MOTION_MODES == {"normal", "fast"}
SUPPORTED_PIXEL_BOOST ==
    {"128x128", "256x256", "384x384", "512x512", "768x768", "1024x1024"}
SUPPORTED_FACE_SELECTOR_MODE == {"many", "one", "reference"}
SUPPORTED_FACE_SELECTOR_ORDER ==
    { "left-right", "right-left", "top-bottom", "bottom-top", "small-large",
      "large-small", "best-worst", "worst-best" }
WARMTH_STYLES == {"anime", "3d_animation", "clay", "comic", "cyberpunk", "realistic"}

\* celebrity.startsWith('custom_')
StartsWithCustom(s) == StartsWith(s, "custom_")

\* A request body, as the handlers destructure it: two URL or text fields
\* and six effect parameters.
\*   url1: imageUrl | firstImageUrl | sourceImageUrl | genres
\*   url2: secondImageUrl | videoUrl | targetVideoUrl | lyrics
\*   p1:   style | celebrity | mode | quality | duration | pixelBoost
\*   p2:   landmark | duration | motionMode | quality | pitchShift | faceSelectorMode
\*   p3:   duration (muscle-surge) | steps | seed (warmth-of-jesus) | faceSelectorOrder
\*   p4:   cfg | style (warmth-of-jesus)
\*   p5:   seed (music-generator)
\*   p6:   lyricsStrength
TwoUrlEffects == {"faceswap", "video-face-swap", "ai-kiss", "ai-hug", "video-face-swap-params"}

GoodUrl == JsString("https://example.com/a.jpg")

\* A body every check of the module accepts.
ValidBody(e) ==
    [ url1 |-> IF e = "music-generator" THEN JsString("lofi") ELSE GoodUrl,
      url2 |-> IF e = "music-generator" THEN JsString("la la")
               ELSE IF e \in TwoUrlEffects THEN JsString("http://example.com/b.mp4")
               ELSE JsUndefined,
      p1 |-> IF e = "anime-filter" THEN JsString("ghibli")
             ELSE IF e = "celebrity-selfie" THEN JsString("jackie_chan")
             ELSE IF e = "music-generator" THEN JsNumber(60)
             ELSE JsUndefined,
      p2 |-> IF e = "celebrity-selfie" THEN JsString("big_ben") ELSE JsUndefined,
      p3 |-> JsUndefined, p4 |-> JsUndefined, p5 |-> JsUndefined, p6 |-> JsUndefined ]

\* Values a client may send for a URL or text field.
UrlSamples == { JsUndefined, JsString(" "), JsString("not-a-url"), JsNumber(7) }

\* Values a client may send for a parameter.
ParamSamples ==
    { JsUndefined, JsString("5"), JsString("taylor_swift"),
      JsString("custom_elon_musk"), JsNumber(7) }

\* The bodies the model sends: the valid body with any one field replaced.
Bodies(e) ==
    {ValidBody(e)}
    \cup { [ValidBody(e) EXCEPT !.url1 = v] : v \in UrlSamples }
    \cup { [ValidBody(e) EXCEPT !.url2 = v] : v \in UrlSamples }
    \cup { [ValidBody(e) EXCEPT !.p1 = v] : v \in ParamSamples }
    \cup { [ValidBody(e) EXCEPT !.p2 = v] : v \in ParamSamples }

Pass == [code |-> 0, error |-> ""]
Reject(msg) == [code |-> 400, error |-> msg]
\* an exception inside the handler's try block: its catch answers 500
Throw(msg) == [code |-> 500, error |-> msg]

\* OutOfRange with the upper bound one too high
OutOfRangeOpen(v, lo, hi) ==
    v.t # "number" \/ v.n < lo \/ v.n > hi + 1

\* typeof v !== 'number' || v < lo || v > hi, for integers lo and hi
OutOfRange(v, lo, hi) ==
    v.t # "number" \/ v.n < lo \/ v.n > hi \/ (~IsInteger(v) /\ v.n = hi)

\* typeof v !== 'number' || v < 0.1 || v > 10
OutOfStrengthRange(v) ==
    \/ v.t # "number"
    \/ IF IsInteger(v) THEN v.n < 1 \/ v.n > 10 ELSE v.n < 0 \/ v.n >= 10

CelebrityError ==
    "Celebrity not supported. Supported celebrities: jackie_chan, michael_jackson, "
    \o "leonardo_dicaprio, will_smith, brad_pitt, angelina_jolie, tom_cruise, "
    \o "scarlett_johansson, robert_downey_jr or custom celebrity names"
LandmarkError ==
    "Landmark not supported. Supported landmarks: oriental_pearl, eiffel_tower, "
    \o "colosseum, statue_of_liberty, big_ben, sydney_opera_house, mount_fuji, "
    \o "taj_mahal, machu_picchu, great_wall, golden_gate_bridge, christ_redeemer"
StyleError ==
    "Style not supported. Supported styles: anime, 3d_animation, clay, comic, "
    \o "cyberpunk, realistic"
PixelBoostError ==
    "Pixel boost not supported. Supported values: 128x128, 256x256, 384x384, "
    \o "512x512, 768x768, 1024x1024"
FaceSelectorOrderError ==
    "Face selector order not supported. Supported orders: left-right, right-left, "
    \o "top-bottom, bottom-top, small-large, large-small, best-worst, worst-best"
QualityError == "Quality not supported. Supported qualities: 360p, 540p, 720p, 1080p"
KlingDurationError == "Duration not supported. Supported durations: 5, 10"

\* The checks of the module's POST /start-task, in the handler's order.
\* Pass, or the response the first failing check sends.
Validate(e, b) ==
    IF e = "anime-filter" THEN
        IF InvalidUrl(b.url1) THEN Reject("Invalid imageUrl parameter")
        ELSE IF Falsy(b.p1) \/ ~IncludesString(SUPPORTED_STYLES, b.p1)
             THEN Reject("Only ghibli style is supported")
        ELSE Pass
    ELSE IF e = "celebrity-selfie" THEN
        IF InvalidUrl(b.url1) THEN Reject("Invalid imageUrl parameter")
        ELSE IF Falsy(b.p1) THEN Reject(CelebrityError)
        ELSE IF ~IncludesString(SUPPORTED_CELEBRITIES, b.p1) /\ b.p1.t # "string"
             THEN Throw("celebrity.startsWith is not a function")
        ELSE IF ~IncludesString(SUPPORTED_CELEBRITIES, b.p1) /\ ~StartsWithCustom(b.p1.s)
             THEN Reject(CelebrityError)
        ELSE IF Falsy(b.p2) \/ ~IncludesString(SUPPORTED_LANDMARKS, b.p2)
             THEN Reject(LandmarkError)
        ELSE Pass
    ELSE IF e = "jellycat-effect" THEN
        IF InvalidUrl(b.url1) THEN Reject("Invalid imageUrl parameter")
        ELSE IF ~IncludesString(JELLYCAT_MODES, Default(b.p1, JsString("pro")))
             THEN Reject("Mode not supported. Supported modes: pro, normal")
        ELSE IF ToNumber(Default(b.p2, JsNumber(5))) \notin KLING_DURATIONS
             THEN Reject(KlingDurationError)
        ELSE Pass
    ELSE IF e \in {"faceswap", "video-face-swap"} THEN
        IF InvalidUrl(b.url1) THEN Reject("Invalid sourceImageUrl parameter")
        ELSE IF InvalidUrl(b.url2)
             THEN Reject(IF e = "faceswap" THEN "Invalid videoUrl parameter"
                         ELSE "Invalid targetVideoUrl parameter")
        ELSE Pass
    ELSE IF e = "muscle-surge" THEN
        IF InvalidUrl(b.url1) THEN Reject("Invalid imageUrl parameter")
        ELSE IF ToNumber(Default(b.p3, JsNumber(5))) # 5
             THEN Reject("Duration not supported. Only supported duration: 5 seconds")
        ELSE IF ~IncludesString(SUPPORTED_QUALITIES, Default(b.p1, JsString("540p")))
             THEN Reject(QualityError)
        ELSE IF ~IncludesString(SUPPORTED_MOTION_MODES, Default(b.p2, JsString("normal")))
             THEN Reject("Motion mode not supported. Supported modes: normal, fast")
        ELSE Pass
    ELSE IF e = "music-generator" THEN
        IF InvalidText(b.url1) THEN Reject("Invalid genres parameter")
        ELSE IF InvalidText(b.url2) THEN Reject("Invalid lyrics parameter")
        ELSE IF OutOfRange(Default(b.p1, JsNumber(60)), 10, 240)
             THEN Reject("Invalid duration parameter (10-240)")
        ELSE IF OutOfStrengthRange(Default(b.p6, JsNumber(1)))
             THEN Reject("Invalid lyricsStrength parameter (0.1-10)")
        ELSE IF OutOfRange(Default(b.p2, JsNumber(4)), 0, 10)
             THEN Reject("Invalid pitchShift parameter (0-10)")
        ELSE IF OutOfRange(Default(b.p3, JsNumber(50)), 10, 150)
             THEN Reject("Invalid steps parameter (10-150)")
        ELSE IF OutOfRange(Default(b.p4, JsNumber(4)), 1, 15)
             THEN Reject("Invalid cfg parameter (1-15)")
        ELSE IF b.p5.t \notin {"null", "undefined"} /\ ~IsInteger(b.p5)
             THEN Reject("Invalid seed parameter")
        ELSE Pass
    ELSE IF e \in {"ai-kiss", "ai-hug"} THEN
        IF InvalidUrl(b.url1) THEN Reject("Invalid firstImageUrl parameter")
        ELSE IF InvalidUrl(b.url2) THEN Reject("Invalid secondImageUrl parameter")
        ELSE IF ~IncludesString(KLING_MODES, Default(b.p1, JsString("pro")))
             THEN Reject("Mode not supported. Supported modes: std, pro")
        ELSE IF ToNumber(Default(b.p2, JsNumber(5))) \notin KLING_DURATIONS
             THEN Reject(KlingDurationError)
        ELSE Pass
    ELSE IF e = "warmth-of-jesus" THEN
        IF InvalidUrl(b.url1) THEN Reject("Invalid imageUrl parameter")
        ELSE IF ToNumber(Default(b.p1, JsNumber(5))) \notin WARMTH_DURATIONS
             THEN Reject("Duration not supported. Supported durations: 5, 8")
        ELSE IF ~IncludesString(SUPPORTED_QUALITIES, Default(b.p2, JsString("540p")))
             THEN Reject(QualityError)
        ELSE IF b.p3.t # "undefined" /\ OutOfRange(b.p3, 1, 999999)
             THEN Reject("Invalid seed, must be a number between 1 and 999999")
        ELSE IF ~Falsy(b.p4) /\ ~IncludesString(WARMTH_STYLES, b.p4)
             THEN Reject(StyleError)
        ELSE Pass
    ELSE \* video-face-swap-params
        IF InvalidUrl(b.url1) THEN Reject("Invalid sourceImageUrl parameter")
        ELSE IF InvalidUrl(b.url2) THEN Reject("Invalid targetVideoUrl parameter")
        ELSE IF ~IncludesString(SUPPORTED_PIXEL_BOOST, Default(b.p1, JsString("384x384")))
             THEN Reject(PixelBoostError)
        ELSE IF ~IncludesString(SUPPORTED_FACE_SELECTOR_MODE, Default(b.p2, JsString("reference")))
             THEN Reject("Face selector mode not supported. Supported modes: many, one, reference")
        ELSE IF ~IncludesString(SUPPORTED_FACE_SELECTOR_ORDER, Default(b.p3, JsString("large-small")))
             THEN Reject(FaceSelectorOrderError)
        ELSE Pass

-----------------------------------------------------------------------------
(* Task records and the store *)

\* tasks[id] = rec
Put(store, id, rec) ==
    [k \in DOMAIN store \cup {id} |-> IF k = id THEN rec ELSE store[k]]

\* delete tasks[k], for every k in ks
Delete(store, ks) == [k \in DOMAIN store \ ks |-> store[k]]

\* An absent field (undefined) is "" for result and error, 0 for createdAt.
PendingRecord(e, t) ==
    [ status |-> "pending", result |-> "", error |-> "",
      createdAt |-> IF HasCreatedAt(e) THEN t ELSE 0 ]

\* err.message || 'Server error'
ErrorText(msg) == IF msg = "" THEN "Server error" ELSE msg

\* The record the worker's outer catch stores:
\* createdAt: tasks[taskId]?.createdAt || Date.now()
FailedRecord(e, store, id, msg, t) ==
    [ status |-> "failed", result |-> "", error |-> ErrorText(msg),
      createdAt |-> IF ~HasCreatedAt(e) THEN 0
                    ELSE IF id \in DOMAIN store /\ store[id].createdAt # 0
                         THEN store[id].createdAt
                    ELSE t ]

\* `tasks[taskId].createdAt` evaluates without a TypeError (a task id is
\* never the name of an inherited property).
CanReadCreatedAt(e, store, id) == ~HasCreatedAt(e) \/ id \in DOMAIN store

TypeErrorMessage == "Cannot read properties of undefined (reading 'createdAt')"

\* A success record that keeps an error message: what SuccessRecord must
\* not be for a record to carry exactly one of result and error.
SuccessRecordWithError(e, store, id, url) ==
    [ status |-> "success", result |-> url, error |-> "stale error",
      createdAt |-> IF HasCreatedAt(e) THEN store[id].createdAt ELSE 0 ]

\* { status: 'success', <url>, createdAt: tasks[taskId].createdAt }
SuccessRecord(e, store, id, url) ==
    [ status |-> "success", result |-> url, error |-> "",
      createdAt |-> IF HasCreatedAt(e) THEN store[id].createdAt ELSE 0 ]

\* A success write that a failure write follows: what StoreSuccess must not
\* be for a terminal record to be final.
StoreSuccessThenFailure(e, store, id, url, t) ==
    << [ status |-> "success", result |-> url, error |-> "", createdAt |-> t ],
       [ status |-> "failed", result |-> "", error |-> "late failure", createdAt |-> t ] >>

\* A success write that does not need the old record: what StoreSuccess
\* must not be for a late worker to leave a failed record behind.
StoreSuccessOfMissing(e, store, id, url, t) ==
    << [ status |-> "success", result |-> url, error |-> "",
         createdAt |-> IF ~HasCreatedAt(e) THEN 0
                       ELSE IF id \in DOMAIN store THEN store[id].createdAt
                       ELSE t ] >>

\* The records a success write stores, in order.  When the record is gone
\* the object literal throws a TypeError before anything is assigned; in
\* the upload branch the inner catch then throws the same way from the
\* fallback literal; either way the outer catch stores a failed record.
StoreSuccess(e, store, id, url, t) ==
    IF CanReadCreatedAt(e, store, id)
    THEN << SuccessRecord(e, store, id, url) >>
    ELSE << FailedRecord(e, store, id, TypeErrorMessage, t) >>

\* A catch block that stores nothing: what StoreFailure must not be for
\* every run to end with a terminal write.
StoreFailureSkipped(e, store, id, msg, t) == << >>

\* A throw inside the worker's try block: the outer catch stores failed.
StoreFailure(e, store, id, msg, t) == << FailedRecord(e, store, id, msg, t) >>

-----------------------------------------------------------------------------
(* Outcomes of the worker's outbound calls and the messages it throws *)

CloudinaryUrl == "https://res.cloudinary.com/demo/video/upload/v1/out.mp4"
VendorUrl == "https://cdn/x.jpg"

\* `data:${contentType};base64,${base64}` (video-face-swap writes video/mp4)
DataUrl(e, ct) ==
    IF e = "video-face-swap" THEN "data:video/mp4;base64,AAAA"
    ELSE "data:" \o ct \o ";base64,AAAA"

IsDataUrl(url) == url \in { DataUrl(e, ct) : e \in Effects, ct \in ContentTypes }

\* A vendor response: segmindRes.ok and its content-type header.  The
\* non-success response is 503 with the plain-text body "rate limited".
VendorResponses ==
    { [ok |-> TRUE, ct |-> c] : c \in ContentTypes } \cup { [ok |-> FALSE, ct |-> "text/html"] }

NetworkError == "network error"

\* Message thrown for a vendor response with !segmindRes.ok
NotOkMessage(e) ==
    IF e = "video-face-swap" THEN "Segmind API error: 503 - rate limited"
    ELSE IF e = "faceswap" THEN "Segmind API error: rate limited"
    ELSE IF e = "video-face-swap-params" THEN "rate limited"
    ELSE "Segmind API error: 503"

\* faceswap: how the read of a non-success response's body can end, by the
\* text it yields: plain text, or JSON with an error field, with a message
\* field only, or with neither.
ErrorBodyOutcomes == {"plain", "json-error", "json-message", "json-empty"}

\* errorText = await segmindRes.text()
NotOkBodyText(o) ==
    IF o = "json-error" THEN "{\"error\":\"quota exceeded\",\"message\":\"try later\"}"
    ELSE IF o = "json-message" THEN "{\"message\":\"try later\"}"
    ELSE IF o = "json-empty" THEN "{}"
    ELSE "rate limited"

\* JSON.parse(errorText): whether it returns, and the error and message
\* fields of what it returns ("" for a field the object lacks)
ParseErrorText(o) ==
    [ parses  |-> o # "plain",
      error   |-> IF o = "json-error" THEN "quota exceeded" ELSE "",
      message |-> IF o \in {"json-error", "json-message"} THEN "try later" ELSE "" ]

\* a || b on strings
OrElse(a, b) == IF a # "" THEN a ELSE b

\* s.substring(0, n)
Substring0(s, n) == IF Len(s) <= n THEN s ELSE SubSeq(s, 1, n)

\* What the try block around JSON.parse throws: the SyntaxError of the
\* parse, or the Error built from the parsed fields and the status code.
FaceswapTryThrows(o) ==
    LET errorJson == ParseErrorText(o)
    IN  IF ~errorJson.parses THEN "Unexpected token r in JSON at position 0"
        ELSE "Segmind API error: " \o OrElse(OrElse(errorJson.error, errorJson.message), "503")

\* faceswap's message for a response with !segmindRes.ok: the try block
\* always throws, and `catch (parseError)` catches whatever it throws, the
\* Error built from the parsed fields included, and throws the raw text.
FaceswapNotOkMessage(o) ==
    LET parseError == FaceswapTryThrows(o)
    IN  "Segmind API error: " \o Substring0(NotOkBodyText(o), 200)

\* Message thrown when the JSON body holds no result URL
MissingUrlMessage(e) ==
    IF e \in {"anime-filter", "celebrity-selfie"} THEN "Segmind API JSON missing image URL"
    ELSE IF e = "music-generator" THEN "Segmind API JSON missing audio URL"
    ELSE "Segmind API JSON missing video URL"

\* Message thrown when the JSON body does not parse
ParseErrorMessage(e) ==
    IF e = "anime-filter" THEN "Failed to parse JSON from Segmind"
    ELSE IF e = "faceswap" THEN "Failed to parse JSON response"
    ELSE "invalid json response body"

\* s repeated n times
RECURSIVE Repeat(_, _)
Repeat(s, n) == IF n = 0 THEN "" ELSE s \o Repeat(s, n - 1)

\* The body of a vendor response whose content type no branch accepts: a
\* page of 240 characters.
FallbackBody(o) == Repeat("<html>", 40)

\* Message thrown for a content type no branch accepts, the response body
\* being `body` (faceswap echoes the first 200 characters to the log only)
UnsupportedMessage(e, ct, body) ==
    IF e = "anime-filter" THEN "Segmind API did not return JSON (got " \o ct \o ")"
    ELSE IF e = "faceswap" THEN "Unsupported content type: " \o ct
    ELSE "Unsupported content type: " \o ct \o "\nBody: " \o body

\* Message of a rejected source-image download
FetchErrorMessage(e) ==
    IF e = "video-face-swap-params" THEN "Failed to fetch source image: " \o NetworkError
    ELSE NetworkError

\* How a source-image download can end
FetchOutcomes(e) ==
    IF e = "video-face-swap-params" THEN {"ok", "reject", "short"} ELSE {"ok", "reject"}

\* How reading the response body can end, given the branch that reads it
BodyOutcomes(e, w) ==
    IF w.ok /\ w.ct = "application/json" THEN {"reject", "url", "nourl", "garbage"}
    ELSE IF w.ok /\ w.ct \in BinaryTypes(e)
         THEN IF e = "video-face-swap-params" THEN {"reject", "bytes", "oversize"}
              ELSE {"reject", "bytes"}
    ELSE IF e = "faceswap" THEN {"reject"} \cup ErrorBodyOutcomes
    ELSE {"reject", "text"}

-----------------------------------------------------------------------------
(* The background worker.  Each operator gives what one resumption of the  *)
(* worker does: the records it stores, in order, and where it stands next. *)

NoWorker ==
    [pc |-> "idle", left |-> 0, ok |-> FALSE, ct |-> "", upload |-> "none", born |-> 0]

Step(recs, w) == [recs |-> recs, w |-> w]
\* The worker has returned: only the fate of its upload is remembered.
Done(w) == [w EXCEPT !.pc = "done", !.left = 0, !.ok = FALSE, !.ct = ""]

\* A worker of warmth-of-jesus whose style check has no truthiness guard:
\* what WorkerCheck must not be for an accepted body to pass the worker.
WorkerCheckWithoutGuard(e, b) ==
    IF e = "warmth-of-jesus" /\ ~IncludesString(WARMTH_STYLES, b.p4)
    THEN "Style not supported"
    ELSE ""

\* The worker's own checks of its parameters, before its first await:
\* the message of the first one that throws, "" when none does.
WorkerCheck(e, b) ==
    IF e = "anime-filter" THEN
        IF ~IncludesString(SUPPORTED_STYLES, b.p1) THEN "Only ghibli style is supported" ELSE ""
    ELSE IF e = "celebrity-selfie" THEN
        IF ~IncludesString(SUPPORTED_LANDMARKS, b.p2) THEN "Landmark not supported"
        ELSE IF StartsWithCustom(b.p1.s) \/ b.p1.s \in CELEBRITY_NAMES THEN ""
        ELSE "Celebrity not supported"
    ELSE IF e = "jellycat-effect" THEN
        IF ~IncludesString(JELLYCAT_MODES, Default(b.p1, JsString("pro"))) THEN "Mode not supported"
        ELSE IF ToNumber(Default(b.p2, JsNumber(5))) \notin KLING_DURATIONS
             THEN "Duration not supported"
        ELSE ""
    ELSE IF e \in {"ai-kiss", "ai-hug"} THEN
        IF ~IncludesString(KLING_MODES, Default(b.p1, JsString("pro"))) THEN "Mode not supported"
        ELSE IF ToNumber(Default(b.p2, JsNumber(5))) \notin KLING_DURATIONS
             THEN "Duration not supported"
        ELSE ""
    ELSE IF e = "muscle-surge" THEN
        IF ~IncludesString(SUPPORTED_QUALITIES, Default(b.p1, JsString("540p")))
        THEN "Quality not supported"
        ELSE IF ~IncludesString(SUPPORTED_MOTION_MODES, Default(b.p2, JsString("normal")))
             THEN "Motion mode not supported"
        ELSE IF ToNumber(Default(b.p3, JsNumber(5))) # 5 THEN "Duration not supported"
        ELSE ""
    ELSE IF e = "warmth-of-jesus" THEN
        IF ToNumber(Default(b.p1, JsNumber(5))) \notin WARMTH_DURATIONS THEN "Duration not supported"
        ELSE IF ~IncludesString(SUPPORTED_QUALITIES, Default(b.p2, JsString("540p")))
             THEN "Quality not supported"
        ELSE IF ~Falsy(b.p4) /\ ~IncludesString(WARMTH_STYLES, b.p4) THEN "Style not supported"
        ELSE ""
    ELSE ""

\* A worker that does not look for the API key: what PrefixError must not
\* be for a missing key to fail the task before any request.
PrefixErrorWithoutKey(e, b, key) == WorkerCheck(e, b)

\* What the worker throws before its first await: a failed check, or the
\* missing API key; "" when it reaches the await.
PrefixError(e, b, key) ==
    IF WorkerCheck(e, b) # "" THEN WorkerCheck(e, b)
    ELSE IF ~key THEN "SEGMIND_API_KEY is not set"
    ELSE ""

\* A worker that stores its pending record only after its first await: what
\* WorkerStart must not be for a returned task id to be known at once.
WorkerStartWithoutPending(e, store, id, b, key, t) ==
    LET w0 == [NoWorker EXCEPT !.born = t]
    IN  IF PrefixError(e, b, key) # ""
        THEN Step(StoreFailure(e, store, id, PrefixError(e, b, key), t), Done(w0))
        ELSE Step(<< >>,
                  [w0 EXCEPT !.pc = IF SourceFetches(e) > 0 THEN "fetch" ELSE "vendor",
                             !.left = SourceFetches(e)])

\* A worker whose pending write comes after the failure of its prefix: what
\* WorkerStart must not be for such a failure to be on record when
\* start-task answers.
WorkerStartPendingLast(e, store, id, b, key, t) ==
    LET pending == PendingRecord(e, t)
        w0 == [NoWorker EXCEPT !.born = t]
    IN  IF PrefixError(e, b, key) # ""
        THEN Step(StoreFailure(e, store, id, PrefixError(e, b, key), t) \o << pending >>, Done(w0))
        ELSE Step(<< pending >>,
                  [w0 EXCEPT !.pc = IF SourceFetches(e) > 0 THEN "fetch" ELSE "vendor",
                             !.left = SourceFetches(e)])

\* The worker from its call to its first await (or to its end, when it
\* throws before): it stores the pending record first.
WorkerStart(e, store, id, b, key, t) ==
    LET pending == PendingRecord(e, t)
        store1 == Put(store, id, pending)
        w0 == [NoWorker EXCEPT !.born = t]
    IN  IF PrefixError(e, b, key) # ""
        THEN Step(<< pending >> \o StoreFailure(e, store1, id, PrefixError(e, b, key), t), Done(w0))
        ELSE Step(<< pending >>,
                  [w0 EXCEPT !.pc = IF SourceFetches(e) > 0 THEN "fetch" ELSE "vendor",
                             !.left = SourceFetches(e)])

\* await fetchImageAsBase64(url) resumes with outcome o
AfterFetch(e, store, id, w, o, t) ==
    IF o = "reject" THEN Step(StoreFailure(e, store, id, FetchErrorMessage(e), t), Done(w))
    ELSE IF o = "short"
         THEN Step(StoreFailure(e, store, id, "Source image base64 is too short or empty", t), Done(w))
    ELSE IF w.left > 1 THEN Step(<< >>, [w EXCEPT !.left = w.left - 1])
    ELSE Step(<< >>, [w EXCEPT !.left = 0, !.pc = IF e = "faceswap" THEN "head" ELSE "vendor"])

\* faceswap: how the HEAD request for the video URL can end: a 2xx response,
\* another response, or a rejection
HeadOutcomes == {"ok", "not-ok", "reject"}

\* A check of the video URL whose failure reaches the outer catch: what
\* AfterHead must not be for the check never to fail the task.
AfterHeadFailing(e, store, id, w, o, t) ==
    IF o = "ok" THEN Step(<< >>, [w EXCEPT !.pc = "vendor"])
    ELSE IF o = "not-ok"
         THEN Step(StoreFailure(e, store, id, "Video URL is not accessible, status: 404", t), Done(w))
    ELSE Step(StoreFailure(e, store, id, NetworkError, t), Done(w))

\* faceswap: await fetch(videoUrl, {method: 'HEAD'}) resumes; whatever the
\* outcome, the inner catch only logs it
AfterHead(e, store, id, w, o, t) == Step(<< >>, [w EXCEPT !.pc = "vendor"])

\* A vendor request whose rejection no catch block handles: what
\* AfterVendor must not be for every task to be settled.
AfterVendorUnhandled(e, store, id, w, rejected, r, t) ==
    IF rejected THEN Step(<< >>, Done(w))
    ELSE Step(<< >>, [w EXCEPT !.pc = "body", !.ok = r.ok, !.ct = r.ct])

\* await fetch(<vendor endpoint>) resumes: rejected, or with response r
AfterVendor(e, store, id, w, rejected, r, t) ==
    IF rejected THEN Step(StoreFailure(e, store, id, NetworkError, t), Done(w))
    ELSE Step(<< >>, [w EXCEPT !.pc = "body", !.ok = r.ok, !.ct = r.ct])

\* the await that reads the response body resumes with outcome o
AfterBody(e, store, id, w, o, t) ==
    IF o = "reject" THEN Step(StoreFailure(e, store, id, NetworkError, t), Done(w))
    ELSE IF ~w.ok THEN
        Step(StoreFailure(e, store, id,
                          IF e = "faceswap" THEN FaceswapNotOkMessage(o) ELSE NotOkMessage(e), t),
             Done(w))
    ELSE IF w.ct \in BinaryTypes(e) THEN
        IF e = "celebrity-selfie"
        THEN Step(StoreSuccess(e, store, id, DataUrl(e, "image/jpeg"), t), Done(w))
        ELSE IF o = "oversize"
        THEN Step(StoreSuccess(e, store, id, DataUrl(e, w.ct), t),
                  Done([w EXCEPT !.upload = "too_large"]))
        ELSE Step(<< >>, [w EXCEPT !.pc = "upload"])
    ELSE IF w.ct = "application/json" THEN
        IF o = "garbage" THEN Step(StoreFailure(e, store, id, ParseErrorMessage(e), t), Done(w))
        ELSE IF o = "nourl" THEN Step(StoreFailure(e, store, id, MissingUrlMessage(e), t), Done(w))
        ELSE Step(StoreSuccess(e, store, id, VendorUrl, t), Done(w))
    ELSE Step(StoreFailure(e, store, id, UnsupportedMessage(e, w.ct, FallbackBody(o)), t), Done(w))

\* await uploadToCloudinary(buffer) resumes: resolved with the URL, or
\* rejected (then the inner catch stores the data URL)
AfterUpload(e, store, id, w, o, t) ==
    IF o = "ok"
    THEN Step(StoreSuccess(e, store, id, CloudinaryUrl, t), Done([w EXCEPT !.upload = "ok"]))
    ELSE Step(StoreSuccess(e, store, id, DataUrl(e, w.ct), t), Done([w EXCEPT !.upload = "fail"]))

-----------------------------------------------------------------------------
(* The expiry sweep and the status handler *)

\* An age test that also holds at the window itself: what Expired must not
\* be for a sweep to delete only records older than the window.
ExpiredAtWindow(e, rec, t) ==
    IF e \in TwoHourSweepers THEN rec.createdAt <= t - TWO_HOURS
    ELSE IF e \in DaySweepers THEN t - rec.createdAt >= DAY
    ELSE FALSE

\* The test of the module's setInterval callback, run at time t
Expired(e, rec, t) ==
    IF e \in TwoHourSweepers THEN rec.createdAt < t - TWO_HOURS
    ELSE IF e \in DaySweepers THEN t - rec.createdAt > DAY
    ELSE FALSE

\* The setInterval callback, run at time t
Sweep(e, store, t) == Delete(store, { k \in DOMAIN store : Expired(e, store[k], t) })

\* A cleanup loop that forgets the age test: what StatusCleanup must not be
\* for a status query to spare unexpired records.
StatusCleanupOfAll(e, store, t) ==
    IF e \in StatusCleaners
    THEN Delete(store, { k \in DOMAIN store : store[k].createdAt # 0 })
    ELSE store

\* jellycat-effect, faceswap: the cleanup loop at the top of GET /status
StatusCleanup(e, store, t) ==
    IF e \in StatusCleaners
    THEN Delete(store, { k \in DOMAIN store :
                            store[k].createdAt # 0 /\ t - store[k].createdAt > DAY })
    ELSE store

\* video-face-swap: the handler's own age test of the record it found
LazilyExpired(e, rec, t) == e = "video-face-swap" /\ t - rec.createdAt > DAY

\* processTime is -1 in a response that has no such field.
NoResponse ==
    [ kind |-> "none", key |-> "", code |-> 0, success |-> FALSE,
      status |-> "", result |-> "", error |-> "", processTime |-> -1 ]

StatusReply(k, code, success, status, result, error) ==
    [ kind |-> "status", key |-> k, code |-> code, success |-> success,
      status |-> status, result |-> result, error |-> error, processTime |-> -1 ]

\* A reply to a failed query that hides the stored outcome: what RecordReply
\* must not be for a status query to report what is stored.
RecordReplyMasked(e, k, rec) ==
    IF rec.status = "success" THEN StatusReply(k, 200, TRUE, "success", rec.result, "")
    ELSE StatusReply(k, 200, FALSE, "pending", "", "")

\* What the handler answers for a record of the store
RecordReply(e, k, rec) ==
    IF rec.status = "success" THEN StatusReply(k, 200, TRUE, "success", rec.result, "")
    ELSE IF rec.status = "failed"
         THEN StatusReply(k, FailedCode(e), FALSE, "failed", "",
                          IF e \in StatusCleaners /\ rec.error = ""
                          THEN "Processing failed" ELSE rec.error)
    ELSE StatusReply(k, 200, PendingSuccess(e), "pending", "", "")

\* Modules whose success and failed replies carry
\* processTime: Date.now() - task.createdAt
ReportsProcessTime(e) ==
    e \in { "muscle-surge", "music-generator", "ai-kiss", "ai-hug",
            "warmth-of-jesus", "video-face-swap-params" }

\* The reply for the record rec, with its processTime field where the
\* module's reply has one
WithProcessTime(e, reply, rec, t) ==
    IF ReportsProcessTime(e) /\ rec.status \in {"success", "failed"}
    THEN [reply EXCEPT !.processTime = t - rec.createdAt]
    ELSE reply

\* What the handler answers when tasks[k] is a member of Object.prototype:
\* the value is truthy and has no status, so the if/else chain ends in its
\* last branch and the switch in its default
InheritedReply(e, k) ==
    IF e = "jellycat-effect" THEN StatusReply(k, 500, FALSE, "unknown", "", "Unknown task status")
    ELSE IF e = "faceswap" THEN StatusReply(k, 500, FALSE, "", "", "Invalid task status")
    ELSE StatusReply(k, 200, PendingSuccess(e), "pending", "", "")

NotFoundReply(k) == StatusReply(k, 404, FALSE, "not_found", "", "Task not found")

\* The store after GET /status/k at time t
StatusStore(e, store, k, t) ==
    LET s1 == StatusCleanup(e, store, t)
    IN  IF k \in DOMAIN s1 /\ LazilyExpired(e, s1[k], t) THEN Delete(s1, {k}) ELSE s1

\* The response of GET /status/k at time t
StatusResponse(e, store, k, t) ==
    LET s1 == StatusCleanup(e, store, t)
    IN  IF k \in DOMAIN s1
        THEN IF LazilyExpired(e, s1[k], t) THEN NotFoundReply(k)
             ELSE WithProcessTime(e, RecordReply(e, k, s1[k]), s1[k], t)
        ELSE IF k \in ObjectPrototypeKeys THEN InheritedReply(e, k)
        ELSE NotFoundReply(k)

-----------------------------------------------------------------------------
(* The actions *)

\* An id generator that repeats itself: what uuidv4 must not be for task
\* ids to be unique.
RepeatedTaskId(n) == Uuid(1)

\* const taskId = uuidv4(): the next id
NewTaskId(n) == Uuid(n + 1)

\* tasks after the records recs are stored under id, in order
StoreAll(store, id, recs) ==
    IF recs = << >> THEN store ELSE Put(store, id, recs[Len(recs)])

\* the terminal records among recs
Terminal(recs) == SelectSeq(recs, LAMBDA r : r.status # "pending")

\* A resumption whose records land under the first task id: what Resume
\* must not be for a record to change only through its own worker.
ResumeUnderFirstId(id, step) ==
    /\ tasks' = StoreAll(tasks, Uuid(1), step.recs)
    /\ writes' = [writes EXCEPT ![id] = @ \o Terminal(step.recs)]
    /\ worker' = [worker EXCEPT ![id] = step.w]

\* One resumption of the worker of id takes effect.
Resume(id, step) ==
    /\ tasks' = StoreAll(tasks, id, step.recs)
    /\ writes' = [writes EXCEPT ![id] = @ \o Terminal(step.recs)]
    /\ worker' = [worker EXCEPT ![id] = step.w]

StartReply(code, id, error) ==
    [ kind |-> "start", key |-> id, code |-> code, success |-> (error = ""),
      status |-> "", result |-> "", error |-> error, processTime |-> -1 ]

\* req where no request is on record, and where the behaviour keeps none
NoRequest == [t |-> "none"]
Unrecorded == [t |-> "unrecorded"]

\* POST /start-task with body b.  A handler runs once the response of the
\* request before it has left (Deliver).
StartTask(b) ==
    LET v == Validate(effect, b)
        id == NewTaskId(issued)
    IN  /\ res = NoResponse
        /\ req' = IF req = Unrecorded THEN Unrecorded ELSE b
        /\ IF v.code # 0
              THEN /\ res' = StartReply(v.code, "", v.error)
                   /\ UNCHANGED <<effect, hasKey, tasks, worker, writes, issued, now, nextSweep, idles>>
              ELSE /\ issued < MaxTasks
                   /\ issued' = issued + 1
                   /\ Resume(id, WorkerStart(effect, tasks, id, b, hasKey, now))
                   /\ res' = StartReply(AcceptedCode(effect), id, "")
                   /\ UNCHANGED <<effect, hasKey, now, nextSweep, idles>>

\* A source-image download of the worker of id ends.
FetchStep(id) ==
    /\ worker[id].pc = "fetch"
    /\ \E o \in FetchOutcomes(effect) :
          Resume(id, AfterFetch(effect, tasks, id, worker[id], o, now))
    /\ res' = NoResponse
    /\ UNCHANGED <<effect, hasKey, issued, now, nextSweep, idles, req>>

\* faceswap: the HEAD request for the video URL ends.
HeadStep(id) ==
    /\ worker[id].pc = "head"
    /\ \E o \in HeadOutcomes :
          Resume(id, AfterHead(effect, tasks, id, worker[id], o, now))
    /\ res' = NoResponse
    /\ UNCHANGED <<effect, hasKey, issued, now, nextSweep, idles, req>>

\* The vendor request of the worker of id ends.
VendorStep(id) ==
    /\ worker[id].pc = "vendor"
    /\ \/ Resume(id, AfterVendor(effect, tasks, id, worker[id], TRUE, [ok |-> FALSE, ct |-> ""], now))
       \/ \E r \in VendorResponses :
             Resume(id, AfterVendor(effect, tasks, id, worker[id], FALSE, r, now))
    /\ res' = NoResponse
    /\ UNCHANGED <<effect, hasKey, issued, now, nextSweep, idles, req>>

\* The read of the vendor response's body ends.
BodyStep(id) ==
    /\ worker[id].pc = "body"
    /\ \E o \in BodyOutcomes(effect, worker[id]) :
          Resume(id, AfterBody(effect, tasks, id, worker[id], o, now))
    /\ res' = NoResponse
    /\ UNCHANGED <<effect, hasKey, issued, now, nextSweep, idles, req>>

\* The upload to the storage vendor ends.
UploadStep(id) ==
    /\ worker[id].pc = "upload"
    /\ \E o \in {"ok", "fail"} :
          Resume(id, AfterUpload(effect, tasks, id, worker[id], o, now))
    /\ res' = NoResponse
    /\ UNCHANGED <<effect, hasKey, issued, now, nextSweep, idles, req>>

WorkerStep(id) ==
    FetchStep(id) \/ HeadStep(id) \/ VendorStep(id) \/ BodyStep(id) \/ UploadStep(id)

\* GET /status/k
StatusQuery(k) ==
    /\ res = NoResponse
    /\ tasks' = StatusStore(effect, tasks, k, now)
    /\ res' = StatusResponse(effect, tasks, k, now)
    /\ UNCHANGED <<effect, hasKey, worker, writes, issued, now, nextSweep, idles, req>>

\* Lengths of the idle periods the model lets pass (ms): a moment, and the
\* module's retention window (a day where the module has none).
IdleSpans(e) == {1, IF Retention(e) > 0 THEN Retention(e) ELSE DAY}

\* The last due time of the interval timer in (now, t], given its next due
\* time; 0 when it is not due by t.
LastDue(e, due, t) ==
    IF SweepInterval(e) = 0 \/ due > t THEN 0
    ELSE due + ((t - due) \div SweepInterval(e)) * SweepInterval(e)

\* d ms pass in which no request arrives and no outbound call ends.  The
\* interval callbacks due in that span run at their due times; what they
\* delete together is what the last of them would delete alone.
Idle(d) ==
    /\ res = NoResponse
    /\ idles < MaxIdle
    /\ idles' = idles + 1
    /\ now' = now + d
    /\ LET last == LastDue(effect, nextSweep, now + d)
       IN  IF last = 0
           THEN UNCHANGED <<tasks, nextSweep>>
           ELSE /\ tasks' = Sweep(effect, tasks, last)
                /\ nextSweep' = last + SweepInterval(effect)
    /\ res' = NoResponse
    /\ UNCHANGED <<effect, hasKey, worker, writes, issued, req>>

\* The response of the last handler has been sent.
Deliver ==
    /\ res # NoResponse
    /\ res' = NoResponse
    /\ req' = IF req = Unrecorded THEN Unrecorded ELSE NoRequest
    /\ UNCHANGED <<effect, hasKey, tasks, worker, writes, issued, now, nextSweep, idles>>

Init ==
    /\ effect \in Effects
    /\ hasKey \in BOOLEAN
    /\ tasks = << >>
    /\ worker = [id \in TaskIds |-> NoWorker]
    /\ writes = [id \in TaskIds |-> << >>]
    /\ issued = 0
    /\ now = 1
    /\ nextSweep = IF SweepInterval(effect) > 0 THEN 1 + SweepInterval(effect) ELSE 0
    /\ idles = 0
    /\ res = NoResponse
    /\ req = Unrecorded

Next ==
    \/ \E b \in Bodies(effect) : StartTask(b)
    \/ \E id \in TaskIds : FetchStep(id)
    \/ \E id \in TaskIds : HeadStep(id)
    \/ \E id \in TaskIds : VendorStep(id)
    \/ \E id \in TaskIds : BodyStep(id)
    \/ \E id \in TaskIds : UploadStep(id)
    \/ \E k \in StatusKeys : StatusQuery(k)
    \/ \E d \in IdleSpans(effect) : Idle(d)
    \/ Deliver

Spec == Init /\ [][Next]_vars

\* The requests and the waits that bear on a worker's progress: start-task
\* with the valid body, status queries for task ids, idle periods as long as
\* the retention window.
LiveNext ==
    \/ StartTask(ValidBody(effect))
    \/ \E id \in TaskIds : FetchStep(id)
    \/ \E id \in TaskIds : HeadStep(id)
    \/ \E id \in TaskIds : VendorStep(id)
    \/ \E id \in TaskIds : BodyStep(id)
    \/ \E id \in TaskIds : UploadStep(id)
    \/ \E k \in TaskIds : StatusQuery(k)
    \/ Idle(IF Retention(effect) > 0 THEN Retention(effect) ELSE DAY)
    \/ Deliver

\* Every outbound call of a started worker ends: a worker that can resume
\* does resume.
LiveSpec == Init /\ [][LiveNext]_vars /\ \A id \in TaskIds : WF_vars(WorkerStep(id))

\* Values a client may send for a URL field, the valid one among them.
UrlValues ==
    UrlSamples \cup
    { GoodUrl, JsString(""), JsNull, JsArray, JsString("ftp://example.com/a.jpg"),
      JsString(" https://example.com/a.jpg") }

\* Values a client may send for a parameter: members and non-members of the
\* allow-lists, the bounds of the numeric ranges and their neighbours, and
\* values of other types.
ParamValues ==
    ParamSamples \cup
    { JsNull, JsString(""), JsArray, JsObject, JsFraction(12), JsString("bogus"),
      JsString("pro"), JsString("normal"), JsString("540p"), JsString("realistic") } \cup
    { JsNumber(n) : n \in { -1, 0, 1, 5, 8, 9, 10, 11, 15, 16, 150, 151, 240, 241,
                            999999, 1000000 } }

BodyFields == {"url1", "url2", "p1", "p2", "p3", "p4", "p5", "p6"}

FieldValues(f) == IF f \in {"url1", "url2"} THEN UrlValues ELSE ParamValues

\* The bodies whose validation is examined: the valid body with any one
\* field replaced, and with the first URL and any other field replaced.
AllBodies(e) ==
    LET One(b) == UNION { { [b EXCEPT ![f] = v] : v \in FieldValues(f) } : f \in BodyFields }
    IN  One(ValidBody(e))
        \cup UNION { One([ValidBody(e) EXCEPT !.url1 = u]) : u \in UrlValues }

\* The start-task handler under examination: a fresh service that keeps a
\* record of the request it answers.
ValidationInit ==
    /\ effect \in Effects
    /\ hasKey \in BOOLEAN
    /\ tasks = << >>
    /\ worker = [id \in TaskIds |-> NoWorker]
    /\ writes = [id \in TaskIds |-> << >>]
    /\ issued = 0
    /\ now = 1
    /\ nextSweep = IF SweepInterval(effect) > 0 THEN 1 + SweepInterval(effect) ELSE 0
    /\ idles = 0
    /\ res = NoResponse
    /\ req = NoRequest

\* POST /start-task with any of the bodies under examination
ExamineStart ==
    /\ res = NoResponse
    /\ \E b \in AllBodies(effect) : StartTask(b)

ValidationNext ==
    \/ ExamineStart
    \/ Deliver

ValidationSpec == ValidationInit /\ [][ValidationNext]_vars

-----------------------------------------------------------------------------
(* Properties *)

\* the task ids start-task has returned so far
Issued == { Uuid(i) : i \in 1..issued }

IsTerminal(rec) == rec.status \in {"success", "failed"}

\* C1: whenever start-task answers success with a taskId, the store holds a
\* record under that id, and a status query made at that moment does not
\* answer not_found.
StartedTaskIsStored ==
    (res.kind = "start" /\ res.success) =>
        /\ res.key \in DOMAIN tasks
        /\ StatusResponse(effect, tasks, res.key, now).status # "not_found"

\* start-task has just answered for a task whose worker waits for an
\* outbound call
StartedTaskIsStoredWitness ==
    /\ res.kind = "start" /\ res.success
    /\ worker[res.key].pc \notin {"idle", "done"}
    /\ res.key \in DOMAIN tasks /\ tasks[res.key].status = "pending"

\* C2: once the record of a task is success or failed, every later state of
\* the store that holds the id holds it with that status, result and error.
TerminalIsFinal ==
    \A id \in TaskIds :
        (Len(writes[id]) >= 1 /\ id \in DOMAIN tasks) =>
            /\ tasks[id].status = writes[id][1].status
            /\ tasks[id].result = writes[id][1].result
            /\ tasks[id].error = writes[id][1].error

\* a status query reads a terminal record after time has passed and the
\* other task has been started
TerminalIsFinalWitness ==
    \E id \in TaskIds :
        /\ Len(writes[id]) = 1 /\ id \in DOMAIN tasks
        /\ res.kind = "status" /\ res.key = id /\ res.status = "success"
        /\ now > worker[id].born
        /\ issued = 2

\* C3: when every outbound call ends, the worker of every started task
\* comes to store a record in success or failed for it.
EveryTaskIsSettled ==
    \A id \in TaskIds :
        (worker[id].pc # "idle") ~> (Len(writes[id]) >= 1 /\ IsTerminal(writes[id][1]))

\* a worker whose vendor request was rejected has stored failed
EveryTaskIsSettledWitness ==
    \E id \in TaskIds :
        /\ worker[id].pc = "done"
        /\ id \in DOMAIN tasks
        /\ tasks[id].status = "failed" /\ tasks[id].error = NetworkError

\* C4: a worker run makes exactly one terminal write: none while it waits
\* for an outbound call, one when it has returned.
OneTerminalWrite ==
    \A id \in TaskIds :
        /\ worker[id].pc \notin {"idle", "done"} => Len(writes[id]) = 0
        /\ worker[id].pc = "done" => Len(writes[id]) = 1 /\ IsTerminal(writes[id][1])

\* one run ended after a failed upload, another after an unusable body
OneTerminalWriteWitness ==
    \E a, b \in TaskIds :
        /\ worker[a].pc = "done" /\ worker[a].upload = "fail"
        /\ worker[b].pc = "done" /\ Len(writes[b]) = 1
        /\ writes[b][1].status = "failed" /\ writes[b][1].error = MissingUrlMessage(effect)

\* C5: a status query for an id start-task never returned answers 404 with
\* status not_found.
UnknownIdIsNotFound ==
    (res.kind = "status" /\ res.key \notin Issued) =>
        res.code = 404 /\ res.status = "not_found"

\* C6: a start-task request that does not pass validation is answered 400
\* with success:false and changes nothing.
InvalidStartIsRejected ==
    [][ (res'.kind = "start" /\ ~res'.success) =>
            /\ res'.code = 400
            /\ UNCHANGED <<tasks, worker, writes, issued>> ]_vars

\* C7: a start-task request that passes validation adds exactly one record,
\* under an id that was neither a key of the store nor returned before, and
\* leaves the other records as they were.
ValidStartAddsOneRecord ==
    [][ (res'.kind = "start" /\ res'.success) =>
            /\ res'.key \notin DOMAIN tasks
            /\ res'.key \notin Issued
            /\ DOMAIN tasks' = DOMAIN tasks \cup {res'.key}
            /\ \A k \in DOMAIN tasks : tasks'[k] = tasks[k] ]_vars

\* the second task has just been started beside the record of the first
ValidStartAddsOneRecordWitness ==
    /\ res.kind = "start" /\ res.success
    /\ res.key = Uuid(2)
    /\ DOMAIN tasks = {Uuid(1), Uuid(2)}
    /\ IsTerminal(tasks[Uuid(1)])

\* C8: a task whose vendor answered with binary media and whose upload
\* failed (or was refused for its size) ends success with a data URL.
FailedUploadFallsBack ==
    \A id \in TaskIds :
        (worker[id].pc = "done" /\ worker[id].upload \in {"fail", "too_large"}) =>
            /\ Len(writes[id]) = 1
            /\ writes[id][1].status = "success"
            /\ IsDataUrl(writes[id][1].result)

\* the retention window the modules state: two hours or a day
Window(e) == IF Retention(e) > 0 THEN Retention(e) ELSE DAY

\* the age of the task id: of its record where the module stamps records
Age(id) ==
    IF HasCreatedAt(effect) /\ id \in DOMAIN tasks THEN now - tasks[id].createdAt
    ELSE now - worker[id].born

\* C9: a status query for a task older than the retention window plus one
\* sweep interval answers not_found.
ExpiredTaskIsNotFound ==
    (res.kind = "status" /\ res.key \in Issued /\ res.status # "not_found") =>
        Age(res.key) <= Window(effect) + SweepInterval(effect)

\* C10: a record is deleted only when the worker of its task has returned.
SweepSparesRunningWorker ==
    [][ \A id \in TaskIds :
            (id \in DOMAIN tasks /\ id \notin DOMAIN tasks') => worker[id].pc = "done" ]_vars


\* C11: createdAt is set when the record of a task is created, and every
\* later record stored under the id carries that value (modules whose
\* records have no createdAt carry none throughout).
CreatedAtIsFixed ==
    \A id \in TaskIds :
        id \in DOMAIN tasks =>
            tasks[id].createdAt = (IF HasCreatedAt(effect) THEN worker[id].born ELSE 0)

\* C12: a success record carries a result URL and no error, a failed record
\* an error message and no result URL, a pending record neither.
RecordIsWellFormed ==
    \A k \in DOMAIN tasks :
        /\ tasks[k].status = "success" => tasks[k].result # "" /\ tasks[k].error = ""
        /\ tasks[k].status = "failed" => tasks[k].error # "" /\ tasks[k].result = ""
        /\ tasks[k].status = "pending" => tasks[k].result = "" /\ tasks[k].error = ""

\* the store holds a success record with a data URL beside a failed record
RecordIsWellFormedWitness ==
    \E a, b \in DOMAIN tasks :
        /\ tasks[a].status = "success" /\ IsDataUrl(tasks[a].result)
        /\ tasks[b].status = "failed" /\ tasks[b].error = ParseErrorMessage(effect)


KeyMissingMessage == "SEGMIND_API_KEY is not set"

\* C13: with SEGMIND_API_KEY unset, a start-task request that passes
\* validation is answered success with a task id, the record of the task is
\* failed with 'SEGMIND_API_KEY is not set' when the answer is sent, and its
\* worker has returned without waiting for any outbound call.
MissingKeyFailsTask ==
    (~hasKey /\ res.kind = "start" /\ res.success) =>
        /\ res.key = Uuid(issued)
        /\ worker[res.key].pc = "done"
        /\ res.key \in DOMAIN tasks
        /\ tasks[res.key].status = "failed"
        /\ tasks[res.key].error = KeyMissingMessage

\* without the key, a second task has been accepted and has failed like the
\* first
MissingKeyFailsTaskWitness ==
    /\ ~hasKey /\ res.kind = "start" /\ res.success /\ res.key = Uuid(2)
    /\ tasks[Uuid(2)].error = KeyMissingMessage
    /\ writes[Uuid(1)] # << >> /\ writes[Uuid(1)][1].error = KeyMissingMessage


\* the messages of the model that contain the status code 503
MentionsStatusCode(msg) ==
    msg \in { "Segmind API error: 503", "Segmind API error: 503 - rate limited",
              "Segmind API error (503)" }

\* C14: when the vendor has answered with a non-success status (503, body
\* "rate limited") and the body has been read, the task is failed with an
\* error message that contains the status code.
NotOkErrorNamesStatus ==
    [][ \A id \in TaskIds :
            (worker[id].pc = "body" /\ ~worker[id].ok /\ worker'[id].pc = "done") =>
                /\ Len(writes'[id]) = 1
                /\ writes'[id][1].status = "failed"
                /\ \/ writes'[id][1].error = NetworkError
                   \/ MentionsStatusCode(writes'[id][1].error) ]_vars

\* C15: a status query leaves every record it keeps as it was, adds none,
\* and deletes only records older than the retention window.
StatusQueryOnlyExpires ==
    [][ res'.kind = "status" =>
            /\ DOMAIN tasks' \subseteq DOMAIN tasks
            /\ \A k \in DOMAIN tasks :
                  IF k \in DOMAIN tasks' THEN tasks'[k] = tasks[k]
                  ELSE /\ Retention(effect) > 0
                       /\ now - tasks[k].createdAt > Retention(effect) ]_vars

\* in a module that expires records on status queries only, a query for the
\* younger task has been answered and the older task's record is gone
StatusQueryOnlyExpiresWitness ==
    /\ effect \in StatusCleaners
    /\ res.kind = "status" /\ res.key = Uuid(2) /\ res.status # "not_found"
    /\ issued = 2
    /\ Uuid(1) \notin DOMAIN tasks /\ Uuid(2) \in DOMAIN tasks

\* C16: a status query for a task whose record is pending answers 200 with
\* success:true and status pending.
PendingReplyIsSuccess ==
    (res.kind = "status" /\ res.key \in DOMAIN tasks /\ tasks[res.key].status = "pending") =>
        res.code = 200 /\ res.success /\ res.status = "pending"

\* C17: a status query for an issued task whose record is in the store
\* reports the stored status: success with success:true and the stored
\* result, failed with success:false and the stored error, else pending.
StatusReplyIsStored ==
    (res.kind = "status" /\ res.key \in Issued /\ res.key \in DOMAIN tasks) =>
        LET rec == tasks[res.key]
        IN  /\ res.status = rec.status
            /\ res.status \in {"pending", "success", "failed"}
            /\ rec.status = "success" => res.success /\ res.result = rec.result
            /\ rec.status = "failed" => ~res.success /\ res.error = rec.error

\* a query has reported failed with the message of a vendor answer that had
\* no result URL, another task being in flight
StatusReplyIsStoredWitness ==
    /\ res.kind = "status" /\ res.key \in Issued /\ res.key \in DOMAIN tasks
    /\ res.status = "failed" /\ res.error = MissingUrlMessage(effect)
    /\ \E id \in TaskIds : worker[id].pc \notin {"idle", "done"}

\* C18: the worker of a task id is started once, by the accepted start-task
\* call that returns the id, and a record is created or changes its status
\* only in a step of the worker of its own id.
OneWorkerPerTask ==
    [][ \A id \in TaskIds :
            /\ (worker[id].pc = "idle" /\ worker'[id].pc # "idle") =>
                  /\ res'.kind = "start" /\ res'.success /\ res'.key = id
                  /\ id \notin Issued
            /\ worker[id].pc # "idle" =>
                  /\ worker'[id].pc # "idle"
                  /\ worker'[id].born = worker[id].born
                  /\ ~(res'.kind = "start" /\ res'.key = id)
            /\ (id \in DOMAIN tasks' /\
                   (id \notin DOMAIN tasks \/ tasks'[id].status # tasks[id].status)) =>
                  worker'[id] # worker[id] ]_vars

\* both workers have been started and have stored different outcomes
OneWorkerPerTaskWitness ==
    /\ issued = 2
    /\ Len(writes[Uuid(1)]) = 1 /\ Len(writes[Uuid(2)]) = 1
    /\ writes[Uuid(1)][1].status = "failed"
    /\ writes[Uuid(2)][1].status = "success"

\* C19: the sweeps of an idle period delete exactly the records that are
\* older than the retention window when the last of them runs, and leave
\* every other record as it was.
SweepDeletesExactlyExpired ==
    [][ now' # now =>
            LET t == LastDue(effect, nextSweep, now')
            IN  \A k \in DOMAIN tasks :
                    IF t # 0 /\ t - tasks[k].createdAt > Retention(effect)
                    THEN k \notin DOMAIN tasks'
                    ELSE k \in DOMAIN tasks' /\ tasks'[k] = tasks[k] ]_vars

\* a sweep has deleted the settled first task and kept the second, whose
\* age is the retention window exactly
SweepDeletesExactlyExpiredWitness ==
    /\ SweepInterval(effect) > 0
    /\ Uuid(1) \notin DOMAIN tasks /\ writes[Uuid(1)] # << >>
    /\ Uuid(2) \in DOMAIN tasks
    /\ now - tasks[Uuid(2)].createdAt = Retention(effect)
    /\ res.kind = "none"

\* C20: the processTime a status query reports for a terminal task does not
\* depend on when the query is made: a query one millisecond later reports
\* the same.
ProcessTimeIsFinal ==
    (res.kind = "status" /\ res.processTime # -1) =>
        StatusResponse(effect, tasks, res.key, now + 1).processTime = res.processTime

\* C21: when the vendor has answered with success status and a JSON body
\* and the body has been read, the task is success with the URL of the
\* body's result field, or failed because that field is missing or empty or
\* the body does not parse (or its read was rejected).
JsonBodyDecidesOutcome ==
    [][ \A id \in TaskIds :
            (/\ worker[id].pc = "body" /\ worker[id].ok
             /\ worker[id].ct = "application/json"
             /\ worker'[id].pc = "done") =>
                /\ Len(writes'[id]) = 1
                /\ \/ /\ writes'[id][1].status = "success"
                      /\ writes'[id][1].result = VendorUrl
                   \/ /\ writes'[id][1].status = "failed"
                      /\ writes'[id][1].error \in
                            { MissingUrlMessage(effect), ParseErrorMessage(effect),
                              NetworkError } ]_vars

\* the number of characters of the body that faceswap echoes
BodyPrefixBound == 200

\* C26: when the vendor's success response has a content type that is
\* neither binary media nor JSON, the task is failed and its error message
\* is the message without a body plus at most a bounded prefix of the body.
UnsupportedErrorIsBounded ==
    [][ \A id \in TaskIds :
            (/\ worker[id].pc = "body" /\ worker[id].ok
             /\ worker[id].ct \notin BinaryTypes(effect) \cup {"application/json"}
             /\ worker'[id].pc = "done") =>
                /\ Len(writes'[id]) = 1
                /\ writes'[id][1].status = "failed"
                /\ \/ writes'[id][1].error = NetworkError
                   \/ Len(writes'[id][1].error) <=
                         Len(UnsupportedMessage(effect, worker[id].ct, "")) + BodyPrefixBound ]_vars

\* C27: once a status query for an issued task id has answered not_found,
\* every later status query for that id answers not_found.
NotFoundIsFinal ==
    \A id \in TaskIds :
        []( (res.kind = "status" /\ res.key = id /\ id \in Issued /\ res.status = "not_found")
              => []( (res.kind = "status" /\ res.key = id) => res.status = "not_found" ) )

\* C28: a step of the worker of one task id leaves the record, the stored
\* outcomes and the worker of every other task id as they were, in whatever
\* order the workers resume.
WorkersDoNotInterfere ==
    [][ \A id \in TaskIds :
            worker'[id] # worker[id] =>
                \A k \in TaskIds \ {id} :
                    /\ (k \in DOMAIN tasks') = (k \in DOMAIN tasks)
                    /\ k \in DOMAIN tasks => tasks'[k] = tasks[k]
                    /\ writes'[k] = writes[k]
                    /\ worker'[k] = worker[k] ]_vars

\* the worker started second has stored success while the worker started
\* first still waits for an outbound call
WorkersDoNotInterfereWitness ==
    /\ worker[Uuid(1)].pc \notin {"idle", "done"}
    /\ Uuid(1) \in DOMAIN tasks /\ tasks[Uuid(1)].status = "pending"
    /\ worker[Uuid(2)].pc = "done"
    /\ Uuid(2) \in DOMAIN tasks /\ tasks[Uuid(2)].status = "success"

\* C29: a worker that ends when the store holds no record for its task id
\* leaves a failed record with createdAt = the time of that write, whatever
\* its outbound calls returned.
LateWriteStoresFailed ==
    [][ \A id \in TaskIds :
            (/\ worker[id].pc \notin {"idle", "done"} /\ worker'[id].pc = "done"
             /\ id \notin DOMAIN tasks) =>
                /\ id \in DOMAIN tasks'
                /\ tasks'[id].status = "failed"
                /\ tasks'[id].createdAt = now ]_vars

\* a worker whose upload succeeded has left a failed record younger than
\* its task
LateWriteStoresFailedWitness ==
    \E id \in TaskIds :
        /\ worker[id].pc = "done" /\ worker[id].upload = "ok"
        /\ id \in DOMAIN tasks
        /\ tasks[id].status = "failed" /\ tasks[id].error = TypeErrorMessage
        /\ tasks[id].createdAt > worker[id].born

\* the messages a worker can throw before its first await
PrefixErrors(e) ==
    ({KeyMissingMessage} \cup { WorkerCheck(e, b) : b \in { c \in Bodies(e) : e = "celebrity-selfie" => c.p1.t = "string" } })
        \ {""}

\* C30: when the worker of a task has ended before its first await, its
\* failed record is in the store when start-task answers, and neither the
\* store nor a status reply ever shows the task as pending.
PrefixFailureIsNeverPending ==
    /\ (res.kind = "start" /\ res.success /\ worker[res.key].pc = "done") =>
          /\ res.key \in DOMAIN tasks
          /\ tasks[res.key].status = "failed"
          /\ tasks[res.key].error \in PrefixErrors(effect)
    /\ \A id \in TaskIds :
          (writes[id] # << >> /\ writes[id][1].error \in PrefixErrors(effect)) =>
              /\ id \in DOMAIN tasks => tasks[id].status = "failed"
              /\ (res.kind = "status" /\ res.key = id) => res.status # "pending"

\* a status query made in the millisecond of the start has answered failed
\* for want of the key
PrefixFailureIsNeverPendingWitness ==
    /\ res.kind = "status" /\ res.key \in Issued
    /\ res.status = "failed" /\ res.error = KeyMissingMessage
    /\ now = worker[res.key].born

\* a start-task request is on record
Recorded == "url1" \in DOMAIN req

\* The fields of the body that hold a source URL (music-generator has none)
UrlFields(e) ==
    IF e = "music-generator" THEN {}
    ELSE IF e \in TwoUrlEffects THEN {"url1", "url2"}
    ELSE {"url1"}

\* The name of the URL parameter in the handler's destructuring of req.body
UrlParamName(e, f) ==
    IF f = "url1"
    THEN IF e \in {"ai-kiss", "ai-hug"} THEN "firstImageUrl"
         ELSE IF e \in {"faceswap", "video-face-swap", "video-face-swap-params"}
              THEN "sourceImageUrl"
         ELSE "imageUrl"
    ELSE IF e \in {"ai-kiss", "ai-hug"} THEN "secondImageUrl"
         ELSE IF e = "faceswap" THEN "videoUrl"
         ELSE "targetVideoUrl"

\* missing, not a string, or not starting with http:// or https://
NotHttpUrl(v) ==
    v.t # "string" \/ ~(StartsWith(v.s, "http://") \/ StartsWith(v.s, "https://"))

EnumParam(f, allowed, dflt, num, opt) ==
    [f |-> f, allowed |-> allowed, dflt |-> dflt, num |-> num, opt |-> opt]

EnumParams(e) ==
    IF e = "anime-filter" THEN {EnumParam("p1", SUPPORTED_STYLES, JsUndefined, FALSE, FALSE)}
    ELSE IF e = "celebrity-selfie"
         THEN {EnumParam("p2", SUPPORTED_LANDMARKS, JsUndefined, FALSE, FALSE)}
    ELSE IF e = "jellycat-effect"
         THEN { EnumParam("p1", JELLYCAT_MODES, JsString("pro"), FALSE, FALSE),
                EnumParam("p2", {"5", "10"}, JsNumber(5), TRUE, FALSE) }
    ELSE IF e \in {"ai-kiss", "ai-hug"}
         THEN { EnumParam("p1", KLING_MODES, JsString("pro"), FALSE, FALSE),
                EnumParam("p2", {"5", "10"}, JsNumber(5), TRUE, FALSE) }
    ELSE IF e = "muscle-surge"
         THEN { EnumParam("p3", {"5"}, JsNumber(5), TRUE, FALSE),
                EnumParam("p1", SUPPORTED_QUALITIES, JsString("540p"), FALSE, FALSE),
                EnumParam("p2", SUPPORTED_MOTION_MODES, JsString("normal"), FALSE, FALSE) }
    ELSE IF e = "warmth-of-jesus"
         THEN { EnumParam("p1", {"5", "8"}, JsNumber(5), TRUE, FALSE),
                EnumParam("p2", SUPPORTED_QUALITIES, JsString("540p"), FALSE, FALSE),
                EnumParam("p4", WARMTH_STYLES, JsUndefined, FALSE, TRUE) }
    ELSE IF e = "video-face-swap-params"
         THEN { EnumParam("p1", SUPPORTED_PIXEL_BOOST, JsString("384x384"), FALSE, FALSE),
                EnumParam("p2", SUPPORTED_FACE_SELECTOR_MODE, JsString("reference"), FALSE, FALSE),
                EnumParam("p3", SUPPORTED_FACE_SELECTOR_ORDER, JsString("large-small"), FALSE, FALSE) }
    ELSE {}

\* the parameter is left out: undefined, or JSON null
Absent(v) == v.t \in {"undefined", "null"}

\* the value sent for the enum parameter p is a member of its allow-list
IsMember(p, v) ==
    \/ p.opt /\ Absent(v)
    \/ IF p.num THEN ToString(ToNumber(Default(v, p.dflt))) \in p.allowed
       ELSE IncludesString(p.allowed, Default(v, p.dflt))

\* C23: start-task starts a task only if every enum parameter of the body
\* is a member of its allow-list; a body that is valid but for enum
\* parameters is answered 400 with an error that lists the allowed values of
\* one of them.
EnumsAreAllowed ==
    [][ (res'.kind = "start" /\ Recorded') =>
            LET bad == { p \in EnumParams(effect) : ~IsMember(p, req'[p.f]) }
                others == BodyFields \ { p.f : p \in EnumParams(effect) }
            IN  /\ res'.success => bad = {}
                /\ bad # {} => UNCHANGED <<tasks, worker, writes, issued>>
                /\ (bad # {} /\ \A f \in others : req'[f] = ValidBody(effect)[f]) =>
                      /\ res'.code = 400
                      /\ \E p \in bad : \A a \in p.allowed : Contains(res'.error, a) ]_vars

\* v is a number in lo..hi
InBounds(v, lo, hi) ==
    /\ v.t = "number"
    /\ v.n >= lo
    /\ IF IsInteger(v) THEN v.n <= hi ELSE v.n < hi

\* A numeric parameter of the body is outside its declared bounds.
OutOfBounds(e, b) ==
    IF e = "music-generator"
    THEN \/ ~InBounds(Default(b.p1, JsNumber(60)), 10, 240)
         \/ ~InBounds(Default(b.p2, JsNumber(4)), 0, 10)
         \/ ~InBounds(Default(b.p3, JsNumber(50)), 10, 150)
         \/ ~InBounds(Default(b.p4, JsNumber(4)), 1, 15)
         \/ ~(Absent(b.p5) \/ IsInteger(b.p5))
    ELSE IF e = "warmth-of-jesus"
    THEN ~(Absent(b.p3) \/ InBounds(b.p3, 1, 999999))
    ELSE FALSE

CelebrityAllowed(v) ==
    v.t = "string" /\ (v.s \in SUPPORTED_CELEBRITIES \/ StartsWith(v.s, "custom_"))

\* C25: celebrity-selfie answers 400 to every body whose celebrity is
\* neither supported nor a custom_ string, of whatever JSON type, and
\* starts no task.
DisallowedCelebrityIsRejected ==
    [][ (/\ effect = "celebrity-selfie" /\ res'.kind = "start" /\ Recorded'
         /\ ~CelebrityAllowed(req'.p1)) =>
            /\ res'.code = 400
            /\ UNCHANGED <<tasks, worker, writes, issued>> ]_vars

\* the message is one the worker's checks of its own parameters throw
IsNotSupportedError(msg) ==
    Contains(msg, "not supported") \/ msg = "Only ghibli style is supported"

\* C31: no worker started by start-task ever stores a failed record whose
\* error is a "not supported" message of the worker's checks of its
\* parameters: what the handler accepts, the worker accepts too.
AcceptedPassesWorkerCheck ==
    \A id \in TaskIds :
        \A i \in 1..Len(writes[id]) :
            writes[id][i].status = "failed" => ~IsNotSupportedError(writes[id][i].error)

\* warmth-of-jesus has accepted the empty style, which is in no allow-list,
\* and its worker has passed its checks and failed on the missing key
AcceptedPassesWorkerCheckWitness ==
    /\ effect = "warmth-of-jesus" /\ Recorded
    /\ req.p4 = JsString("") /\ res.kind = "start" /\ res.success
    /\ \E id \in TaskIds :
          /\ Len(writes[id]) = 1
          /\ writes[id][1].status = "failed"
          /\ writes[id][1].error = KeyMissingMessage

\* The message the error of a non-success response is to carry: built from
\* the parsed fields when the body parses, from the raw text otherwise.
ParsedFieldsMessage(o) ==
    IF ParseErrorText(o).parses THEN FaceswapTryThrows(o)
    ELSE "Segmind API error: " \o Substring0(NotOkBodyText(o), 200)

\* C32: in faceswap, when the body of a non-success vendor response has
\* been read, the task is failed with a message built from the JSON error
\* field, else the message field, else the status code, and from the raw
\* text only when the body is not JSON.
NotOkErrorUsesParsedFields ==
    [][ \A id \in TaskIds :
            (/\ effect = "faceswap"
             /\ worker[id].pc = "body" /\ ~worker[id].ok /\ worker'[id].pc = "done") =>
                /\ writes'[id] # << >>
                /\ LET rec == writes'[id][Len(writes'[id])]
                   IN  /\ rec.status = "failed"
                       /\ rec.error \in {NetworkError}
                              \cup { ParsedFieldsMessage(o) : o \in ErrorBodyOutcomes } ]_vars

\* C33: in faceswap, however the HEAD request for the video URL ends, the
\* worker stores nothing and goes on to the vendor request: the step leaves
\* every record as it was.
HeadCheckNeverFails ==
    [][ \A id \in TaskIds :
            (effect = "faceswap" /\ worker[id].pc = "head") =>
                /\ \A o \in HeadOutcomes :
                      AfterHead(effect, tasks, id, worker[id], o, now)
                          = Step(<< >>, [worker[id] EXCEPT !.pc = "vendor"])
                /\ worker'[id] # worker[id] =>
                      /\ worker'[id].pc = "vendor"
                      /\ UNCHANGED <<tasks, writes>> ]_vars

\* a faceswap worker is past the check of the video URL, its vendor request
\* outstanding and its record pending
HeadCheckNeverFailsWitness ==
    /\ effect = "faceswap"
    /\ \E id \in TaskIds :
          /\ worker[id].pc = "vendor"
          /\ id \in DOMAIN tasks /\ tasks[id].status = "pending"
          /\ writes[id] = << >>

=============================================================================
